---- MODULE Spec2Model ----
(***************************************************************************)
(* Model of the native GPIO pin backing of Grbl_Esp32                      *)
(* (Grbl_Esp32/src/Pins/GPIOPinDetail.cpp): the capability table, the      *)
(* constructor that folds option tokens into attributes, and the pin       *)
(* operations setAttr / write / read / attachInterrupt / detachInterrupt,  *)
(* together with the hardware primitives they call.                        *)
(*                                                                         *)
(* One pin object is modelled: every GPIOPinDetail owns its own fields and *)
(* touches only the hardware line and interrupt slot of its own index.     *)
(***************************************************************************)
EXTENDS Integers, Sequences, FiniteSets, TLC

----------------------------------------------------------------------------
(* Bounds of the model *)

\* longest option list handed to the constructor
MaxOpts == 3

----------------------------------------------------------------------------
(* Flag sets.  A PinCapabilities / PinAttributes bit mask is modelled as the *)
(* set of the flags whose bit is set, so | is \cup and has(f) is f \in s.    *)

CapabilityFlags == {"Native", "Input", "Output", "PullUp", "PullDown",
                    "ADC", "DAC", "PWM", "ISR", "UART"}

AttributeFlags == {"Input", "Output", "PullUp", "PullDown", "ISR",
                   "ActiveLow", "InitialOn"}

\* the attribute flags that have a capability of the same name
MappedFlags == AttributeFlags \cap CapabilityFlags

None == {}

PinAttributes == SUBSET AttributeFlags

\* uint8_t index
PinIndexes == 0..255

\* the two pins of Serial0
ConsoleIndexes == {1, 3}

HIGH == 1
LOW == 0

\* Arduino pin mode bits; distinct bits, so |= of distinct bits is +
INPUT == 1
OUTPUT == 2
PULLUP == 4
PULLDOWN == 8

\* a ^ b on one-bit values
Xor(a, b) == IF a = b THEN 0 ELSE 1

----------------------------------------------------------------------------
(* Capability table *)

\* mutant: 37 and 38 listed with the input-only pins
GetDefaultCapabilities_More(idx) ==
    CASE idx \in {0, 2, 4, 12, 13, 14, 15, 27, 32, 33} ->
           {"Native", "Input", "Output", "PullUp", "PullDown", "ADC", "PWM", "ISR", "UART"}
      [] idx = 1 ->
           {"Native", "Output", "Input", "UART"}
      [] idx = 3 ->
           {"Native", "Output", "Input", "ISR", "UART"}
      [] idx \in {5, 16, 17, 18, 19, 21, 22, 23, 29} ->
           {"Native", "Input", "Output", "PullUp", "PullDown", "PWM", "ISR", "UART"}
      [] idx \in {25, 26} ->
           {"Native", "Input", "Output", "PullUp", "PullDown", "ADC", "DAC", "PWM", "ISR", "UART"}
      [] idx \in {6, 7, 8, 9, 10, 11} ->
           {"Native", "Input", "Output", "PWM", "ISR", "UART"}
      [] idx \in {34, 35, 36, 37, 38, 39} ->
           {"Native", "Input", "ADC", "ISR", "UART"}
      [] OTHER -> {}

GetDefaultCapabilities(idx) ==
    CASE idx = 0 ->
           {"Native", "Input", "Output", "PullUp", "PullDown", "ADC", "PWM", "ISR", "UART"}
      [] idx = 1 ->
           {"Native", "Output", "Input", "UART"}
      [] idx = 3 ->
           {"Native", "Output", "Input", "ISR", "UART"}
      [] idx \in {5, 16, 17, 18, 19, 21, 22, 23, 29} ->
           {"Native", "Input", "Output", "PullUp", "PullDown", "PWM", "ISR", "UART"}
      [] idx \in {2, 4, 12, 13, 14, 15, 27, 32, 33} ->
           {"Native", "Input", "Output", "PullUp", "PullDown", "ADC", "PWM", "ISR", "UART"}
      [] idx \in {25, 26} ->
           {"Native", "Input", "Output", "PullUp", "PullDown", "ADC", "DAC", "PWM", "ISR", "UART"}
      [] idx \in {6, 7, 8, 9, 10, 11} ->
           {"Native", "Input", "Output", "PWM", "ISR", "UART"}
      [] idx \in {34, 35, 36, 39} ->
           {"Native", "Input", "ADC", "ISR", "UART"}
      [] OTHER -> None

----------------------------------------------------------------------------
(* Option tokens.  "other" stands for any token that is none of the four   *)
(* the constructor recognises.                                             *)

Tokens == {"pu", "pd", "low", "high", "other"}

OptionLists == UNION {[1..n -> Tokens] : n \in 0..MaxOpts}

\* one iteration of the constructor's loop: the attributes after the token,
\* ok = FALSE when the token hits the final else branch (Assert(false, ...))
\* mutant: a pull option replaces the other pull
FoldToken_LastPullWins(attrs, opt) ==
    IF opt = "pu" THEN [ok |-> TRUE, attrs |-> (attrs \ {"PullDown"}) \cup {"PullUp"}]
    ELSE IF opt = "pd" THEN [ok |-> TRUE, attrs |-> (attrs \ {"PullUp"}) \cup {"PullDown"}]
    ELSE IF opt = "low" THEN [ok |-> TRUE, attrs |-> attrs \cup {"ActiveLow"}]
    ELSE IF opt = "high" THEN [ok |-> TRUE, attrs |-> attrs]
    ELSE [ok |-> FALSE, attrs |-> attrs]

\* mutant: a token that is not recognised is skipped
FoldToken_Lenient(attrs, opt) ==
    IF opt = "pu" THEN [ok |-> TRUE, attrs |-> attrs \cup {"PullUp"}]
    ELSE IF opt = "pd" THEN [ok |-> TRUE, attrs |-> attrs \cup {"PullDown"}]
    ELSE IF opt = "low" THEN [ok |-> TRUE, attrs |-> attrs \cup {"ActiveLow"}]
    ELSE [ok |-> TRUE, attrs |-> attrs]

FoldToken(attrs, opt) ==
    IF opt = "pu" THEN [ok |-> TRUE, attrs |-> attrs \cup {"PullUp"}]
    ELSE IF opt = "pd" THEN [ok |-> TRUE, attrs |-> attrs \cup {"PullDown"}]
    ELSE IF opt = "low" THEN [ok |-> TRUE, attrs |-> attrs \cup {"ActiveLow"}]
    ELSE IF opt = "high" THEN [ok |-> TRUE, attrs |-> attrs]
    ELSE [ok |-> FALSE, attrs |-> attrs]

\* the loop over the options, left to right, leaving at the first throw
RECURSIVE FoldFrom(_, _, _)
FoldFrom(attrs, opts, i) ==
    IF i > Len(opts) THEN [ok |-> TRUE, attrs |-> attrs]
    ELSE LET r == FoldToken(attrs, opts[i])
         IN  IF r.ok THEN FoldFrom(r.attrs, opts, i + 1)
             ELSE [ok |-> FALSE, attrs |-> r.attrs]

FoldOptions(opts) == FoldFrom(None, opts, 1)

\* mutant: the mask keeps the 0 of the initialiser list
MaskOf_Never(attrs) == LOW

\* mutant: ActiveLow gives mask LOW
MaskOf_Inverted(attrs) == IF "ActiveLow" \in attrs THEN LOW ELSE HIGH

\* the R/W mask for the ActiveLow setting
MaskOf(attrs) == IF "ActiveLow" \in attrs THEN HIGH ELSE LOW

----------------------------------------------------------------------------
(* PinAttributes::validateWith and PinAttributes::conflictsWith *)

\* every flag of the request that has a capability is among the capabilities
validateWith(value, caps) == (value \cap MappedFlags) \subseteq caps

\* Input/Output and PullUp/PullDown are mutually exclusive pairs
conflictsWith(attrs, value) ==
    \/ "Input" \in value /\ "Output" \in attrs
    \/ "Output" \in value /\ "Input" \in attrs
    \/ "PullUp" \in value /\ "PullDown" \in attrs
    \/ "PullDown" \in value /\ "PullUp" \in attrs

----------------------------------------------------------------------------
(* Outcomes: "ok" or the message of the Assert that threw *)

Ok == "ok"
BadGpioNumber == "Bad GPIO number"
BadGpioOption == "Bad GPIO option passed to pin"
CapabilityMismatch == "The requested attributes don't match the pin capabilities"
AttributeConflict == "Attributes on this pin have been set before, and there's a conflict."
NoOutput == "Pin has no output attribute defined. Cannot write to it."
NoIsrBind == "Pin has no ISR attribute. Cannot bind ISR."
NoIsrUnbind == "Pin has no ISR attribute. Cannot unbind ISR."

\* the two kinds of failure
ConfigurationErrors == {BadGpioNumber, BadGpioOption}
AttributeErrors == {CapabilityMismatch, AttributeConflict, NoOutput, NoIsrBind, NoIsrUnbind}

----------------------------------------------------------------------------
(* Inputs of attachInterrupt *)

Callbacks == {"isrHandler"}
Contexts == {"ctx"}
TriggerModes == {"RISING", "FALLING"}

Unbound == [bound |-> FALSE, pin |-> 0, cb |-> "", arg |-> "", mode |-> ""]

----------------------------------------------------------------------------
(* State *)

VARIABLES
    phase,          \* "none": no pin object yet; "live": constructed; "failed": the constructor threw
    index,          \* _index
    capabilities,   \* _capabilities
    attributes,     \* _attributes
    currentMode,    \* _currentMode
    readWriteMask,  \* _readWriteMask
    line,           \* hardware: the physical level of the pin's line
    isr,            \* hardware: what the interrupt controller has bound for the pin
    hwCalls,        \* the hardware calls issued by the last operation, in order
    lastOp,         \* the last operation: its name, outcome, write's argument, read's result
    isrRequested    \* history: some successful setAttr had ISR in its requested set

pinFields == <<index, capabilities, attributes, currentMode, readWriteMask>>

vars == <<phase, index, capabilities, attributes, currentMode, readWriteMask,
          line, isr, hwCalls, lastOp, isrRequested>>

Call(fn, pin, val) == [fn |-> fn, pin |-> pin, val |-> val]

\* afterWrite: the operation is a read that directly follows a successful write;
\* args: the index and the options of a constructor call
Done(op, status, high, ret) ==
    [op |-> op, status |-> status, high |-> high, ret |-> ret, afterWrite |-> FALSE,
     args |-> <<>>]

Constructed(status, idx, opts) ==
    [Done("construct", status, 0, 0) EXCEPT !.args = <<idx, opts>>]

Init ==
    /\ phase = "none"
    /\ index = 0
    /\ capabilities = None
    /\ attributes = None
    /\ currentMode = None
    /\ readWriteMask = 0
    /\ line \in {LOW, HIGH}
    /\ isr = Unbound
    /\ hwCalls = <<>>
    /\ lastOp = Done("none", Ok, 0, 0)
    /\ isrRequested = FALSE

\* an Assert that throws out of a member function: nothing after it runs
Throws(op, status) ==
    /\ lastOp' = Done(op, status, 0, 0)
    /\ hwCalls' = <<>>
    /\ UNCHANGED <<phase, pinFields, line, isr, isrRequested>>

----------------------------------------------------------------------------
(* GPIOPinDetail::GPIOPinDetail *)

Construct(idx, opts) ==
    /\ phase = "none"
    /\ LET caps == GetDefaultCapabilities(idx)
           fold == FoldOptions(opts)
       IN  IF caps = None
           THEN /\ phase' = "failed"
                /\ lastOp' = Constructed(BadGpioNumber, idx, opts)
                /\ hwCalls' = <<>>
                /\ UNCHANGED <<pinFields, line, isr, isrRequested>>
           ELSE IF ~fold.ok
           THEN /\ phase' = "failed"
                /\ lastOp' = Constructed(BadGpioOption, idx, opts)
                /\ hwCalls' = <<>>
                /\ UNCHANGED <<pinFields, line, isr, isrRequested>>
           ELSE /\ phase' = "live"
                /\ index' = idx
                /\ capabilities' = caps
                /\ attributes' = fold.attrs
                /\ currentMode' = None
                /\ readWriteMask' = MaskOf(fold.attrs)
                /\ lastOp' = Constructed(Ok, idx, opts)
                /\ hwCalls' = <<>>
                /\ UNCHANGED <<line, isr, isrRequested>>

----------------------------------------------------------------------------
(* GPIOPinDetail::write, GPIOPinDetail::read *)

\* mutant: the level is written without the mask
WriteLevel_Raw(mask, high) == high

WriteLevel(mask, high) == Xor(mask, high)

\* mutant: the level is returned without the mask
ReadValue_Raw(raw, mask) == raw

ReadValue(raw, mask) == Xor(raw, mask)

write(high) ==
    /\ phase = "live"
    /\ IF "Output" \notin currentMode
       THEN Throws("write", NoOutput)
       ELSE LET value == WriteLevel(readWriteMask, high)
            IN  /\ hwCalls' = <<Call("digitalWrite", index, value)>>
                /\ line' = value
                /\ lastOp' = Done("write", Ok, high, 0)
                /\ UNCHANGED <<phase, pinFields, isr, isrRequested>>

read ==
    /\ phase = "live"
    /\ LET raw == line
       IN  /\ hwCalls' = <<Call("digitalRead", index, 0)>>
           /\ lastOp' = [Done("read", Ok, 0, ReadValue(raw, readWriteMask))
                          EXCEPT !.afterWrite = (lastOp.op = "write" /\ lastOp.status = Ok)]
           /\ UNCHANGED <<phase, pinFields, line, isr, isrRequested>>

\* the outside world moves the line
LineChange ==
    /\ phase = "live"
    /\ line' = Xor(line, 1)
    /\ lastOp' = Done("external", Ok, 0, 0)
    /\ hwCalls' = <<>>
    /\ UNCHANGED <<phase, pinFields, isr, isrRequested>>

----------------------------------------------------------------------------
(* GPIOPinDetail::setAttr *)

\* the first assertion: the request validates, or the pin is one of Serial0's
\* mutant: the first assertion also exempts the input-only pins
CapabilityCheck_InputOnly(idx, caps, value) ==
    validateWith(value, caps) \/ idx = 1 \/ idx = 3 \/ idx >= 34

\* mutant: the capability assertion is missing
CapabilityCheck_Off(idx, caps, value) == TRUE

CapabilityCheck(idx, caps, value) ==
    validateWith(value, caps) \/ idx = 1 \/ idx = 3

\* mutant: the second assertion exempts the TX pin only
ConflictCheck_TxOnly(idx, attrs, value) ==
    ~conflictsWith(attrs, value) \/ idx = 1

\* the second assertion: no conflict, or the pin is one of Serial0's
ConflictCheck(idx, attrs, value) ==
    ~conflictsWith(attrs, value) \/ idx = 1 \/ idx = 3

\* mutant: the pull-down test is an if, not an else if
PinModeValue_BothPulls(attrs, value) ==
    (IF "Input" \in value THEN INPUT
     ELSE IF "Output" \in value THEN OUTPUT
     ELSE 0)
    +
    (IF "PullUp" \in attrs \/ "PullUp" \in value THEN PULLUP ELSE 0)
    +
    (IF "PullDown" \in attrs \/ "PullDown" \in value THEN PULLDOWN ELSE 0)

\* pinModeValue: direction, then pull
PinModeValue(attrs, value) ==
    (IF "Input" \in value THEN INPUT
     ELSE IF "Output" \in value THEN OUTPUT
     ELSE 0)
    +
    (IF "PullUp" \in attrs \/ "PullUp" \in value THEN PULLUP
     ELSE IF "PullDown" \in attrs \/ "PullDown" \in value THEN PULLDOWN
     ELSE 0)

\* mutant: the initial level is written without the mask
InitialWrites_NoMask(idx, mask, value) ==
    IF "Output" \in value
    THEN IF "InitialOn" \in value
         THEN <<Call("digitalWrite", idx, HIGH)>>
         ELSE <<Call("digitalWrite", idx, LOW)>>
    ELSE <<>>

\* the initial level written when Output is requested
InitialWrites(idx, mask, value) ==
    IF "Output" \in value
    THEN IF "InitialOn" \in value
         THEN <<Call("digitalWrite", idx, Xor(HIGH, mask))>>
         ELSE <<Call("digitalWrite", idx, Xor(LOW, mask))>>
    ELSE <<>>

\* mutant: _currentMode is assigned before the assertions
setAttr_CommitFirst(value) ==
    /\ phase = "live"
    /\ currentMode' = value
    /\ IF ~CapabilityCheck(index, capabilities, value) \/ ~ConflictCheck(index, attributes, value)
       THEN /\ lastOp' = Done("setAttr",
                              IF ~CapabilityCheck(index, capabilities, value)
                              THEN CapabilityMismatch ELSE AttributeConflict, 0, 0)
            /\ hwCalls' = <<>>
            /\ UNCHANGED <<phase, index, capabilities, attributes, readWriteMask,
                           line, isr, isrRequested>>
       ELSE LET writes == InitialWrites(index, readWriteMask, value)
            IN  /\ hwCalls' = writes \o <<Call("pinMode", index, PinModeValue(attributes, value))>>
                /\ line' = IF writes = <<>> THEN line ELSE writes[1].val
                /\ lastOp' = Done("setAttr", Ok, 0, 0)
                /\ isrRequested' = (isrRequested \/ "ISR" \in value)
                /\ UNCHANGED <<phase, index, capabilities, attributes, readWriteMask, isr>>

\* mutant: the request is merged into _currentMode
setAttr_Merge(value) ==
    /\ phase = "live"
    /\ IF ~CapabilityCheck(index, capabilities, value)
       THEN Throws("setAttr", CapabilityMismatch)
       ELSE IF ~ConflictCheck(index, attributes, value)
       THEN Throws("setAttr", AttributeConflict)
       ELSE LET writes == InitialWrites(index, readWriteMask, value)
            IN  /\ currentMode' = currentMode \cup value
                /\ hwCalls' = writes \o <<Call("pinMode", index, PinModeValue(attributes, value))>>
                /\ line' = IF writes = <<>> THEN line ELSE writes[1].val
                /\ lastOp' = Done("setAttr", Ok, 0, 0)
                /\ isrRequested' = (isrRequested \/ "ISR" \in value)
                /\ UNCHANGED <<phase, index, capabilities, attributes, readWriteMask, isr>>

\* mutant: the pin mode is applied before the initial level is written
setAttr_ModeFirst(value) ==
    /\ phase = "live"
    /\ IF ~CapabilityCheck(index, capabilities, value)
       THEN Throws("setAttr", CapabilityMismatch)
       ELSE IF ~ConflictCheck(index, attributes, value)
       THEN Throws("setAttr", AttributeConflict)
       ELSE LET writes == InitialWrites(index, readWriteMask, value)
            IN  /\ currentMode' = value
                /\ hwCalls' = <<Call("pinMode", index, PinModeValue(attributes, value))>> \o writes
                /\ line' = IF writes = <<>> THEN line ELSE writes[1].val
                /\ lastOp' = Done("setAttr", Ok, 0, 0)
                /\ isrRequested' = (isrRequested \/ "ISR" \in value)
                /\ UNCHANGED <<phase, index, capabilities, attributes, readWriteMask, isr>>

\* mutant: a successful setAttr also accumulates the request into _attributes
setAttr_Accumulates(value) ==
    /\ phase = "live"
    /\ IF ~CapabilityCheck(index, capabilities, value)
       THEN Throws("setAttr", CapabilityMismatch)
       ELSE IF ~ConflictCheck(index, attributes, value)
       THEN Throws("setAttr", AttributeConflict)
       ELSE LET writes == InitialWrites(index, readWriteMask, value)
            IN  /\ currentMode' = value
                /\ attributes' = attributes \cup value
                /\ hwCalls' = writes \o <<Call("pinMode", index, PinModeValue(attributes, value))>>
                /\ line' = IF writes = <<>> THEN line ELSE writes[1].val
                /\ lastOp' = Done("setAttr", Ok, 0, 0)
                /\ isrRequested' = (isrRequested \/ "ISR" \in value)
                /\ UNCHANGED <<phase, index, capabilities, readWriteMask, isr>>

setAttr(value) ==
    /\ phase = "live"
    /\ IF ~CapabilityCheck(index, capabilities, value)
       THEN Throws("setAttr", CapabilityMismatch)
       ELSE IF ~ConflictCheck(index, attributes, value)
       THEN Throws("setAttr", AttributeConflict)
       ELSE LET writes == InitialWrites(index, readWriteMask, value)
            IN  /\ currentMode' = value
                /\ hwCalls' = writes \o <<Call("pinMode", index, PinModeValue(attributes, value))>>
                /\ line' = IF writes = <<>> THEN line ELSE writes[1].val
                /\ lastOp' = Done("setAttr", Ok, 0, 0)
                /\ isrRequested' = (isrRequested \/ "ISR" \in value)
                /\ UNCHANGED <<phase, index, capabilities, attributes, readWriteMask, isr>>

----------------------------------------------------------------------------
(* GPIOPinDetail::attachInterrupt, GPIOPinDetail::detachInterrupt *)

\* mutant: the ISR assertion is missing
attachInterrupt_NoAssert(callback, arg, mode) ==
    /\ phase = "live"
    /\ isr' = [bound |-> TRUE, pin |-> index, cb |-> callback, arg |-> arg, mode |-> mode]
    /\ hwCalls' = <<Call("attachInterruptArg", index, 0)>>
    /\ lastOp' = Done("attachInterrupt", Ok, 0, 0)
    /\ UNCHANGED <<phase, pinFields, line, isrRequested>>

attachInterrupt(callback, arg, mode) ==
    /\ phase = "live"
    /\ IF "ISR" \notin currentMode
       THEN Throws("attachInterrupt", NoIsrBind)
       ELSE /\ isr' = [bound |-> TRUE, pin |-> index, cb |-> callback, arg |-> arg, mode |-> mode]
            /\ hwCalls' = <<Call("attachInterruptArg", index, 0)>>
            /\ lastOp' = Done("attachInterrupt", Ok, 0, 0)
            /\ UNCHANGED <<phase, pinFields, line, isrRequested>>

detachInterrupt ==
    /\ phase = "live"
    /\ IF "ISR" \notin currentMode
       THEN Throws("detachInterrupt", NoIsrUnbind)
       ELSE /\ isr' = Unbound
            /\ hwCalls' = <<Call("detachInterrupt", index, 0)>>
            /\ lastOp' = Done("detachInterrupt", Ok, 0, 0)
            /\ UNCHANGED <<phase, pinFields, line, isrRequested>>

----------------------------------------------------------------------------
(* Input sets *)

\* indices of each distinct row of the capability table as setAttr sees it
\* (2 and 26: everything, 1 and 3: Serial0, 6: no pulls, 34, 35, 36, 39: input
\* only), and two indices that are not mapped (20, 40)
SamplePins == {1, 2, 3, 6, 26, 34, 35, 36, 39, 20, 40}

\* the requests upper layers make: ActiveLow is given by the "low" option, and
\* setAttr reads no ActiveLow bit of its argument
Requests == SUBSET (AttributeFlags \ {"ActiveLow"})

\* requests that concern direction and initial level
IoRequests == SUBSET {"Input", "Output", "InitialOn"}

\* requests that concern interrupts
IsrRequests == SUBSET {"Input", "Output", "ISR"}

LifeRequests == IoRequests \cup IsrRequests

\* a pin is constructed once
ConstructAny ==
    /\ phase = "none"
    /\ \E idx \in PinIndexes, opts \in OptionLists : Construct(idx, opts)

ConstructSample ==
    /\ phase = "none"
    /\ \E idx \in SamplePins, opts \in OptionLists : Construct(idx, opts)

----------------------------------------------------------------------------
(* Construction alone, over every 8-bit index *)

NextConstruct == ConstructAny

SpecConstruct == Init /\ [][NextConstruct]_vars

(* Construction and configuration, over every request *)

NextAttr ==
    \/ ConstructSample
    \/ \E value \in Requests : setAttr(value)

SpecAttr == Init /\ [][NextAttr]_vars

(* Construction, configuration and logical I/O *)

NextIO ==
    \/ ConstructSample
    \/ \E value \in IoRequests : setAttr(value)
    \/ \E high \in {0, 1} : write(high)
    \/ read
    \/ LineChange

SpecIO == Init /\ [][NextIO]_vars

(* Construction, configuration and interrupt binding *)

NextIsr ==
    \/ ConstructSample
    \/ \E value \in IsrRequests : setAttr(value)
    \/ \E callback \in Callbacks, arg \in Contexts, mode \in TriggerModes :
           attachInterrupt(callback, arg, mode)
    \/ detachInterrupt

SpecIsr == Init /\ [][NextIsr]_vars

(* The pin's life: constructed once, then used *)

Next ==
    \/ ConstructSample
    \/ \E value \in LifeRequests : setAttr(value)
    \/ \E high \in {0, 1} : write(high)
    \/ read
    \/ \E callback \in Callbacks, arg \in Contexts, mode \in TriggerModes :
           attachInterrupt(callback, arg, mode)
    \/ detachInterrupt
    \/ LineChange

Spec == Init /\ [][Next]_vars

----------------------------------------------------------------------------
(* Properties *)

\* the step is a setAttr call that threw
Rejected == lastOp'.op = "setAttr" /\ lastOp'.status \in AttributeErrors

\* C1 (as stated): on every constructed pin, the console pins 1 and 3 included,
\* a setAttr whose request is not within the pin's capabilities fails with an
\* attribute error and leaves currentMode as it was.
C1_AnyPin ==
    [][\A value \in Requests :
         (~validateWith(value, capabilities) /\ setAttr(value))
             => (Rejected /\ currentMode' = currentMode)]_vars

\* C1 (amended): on every constructed pin other than the console pins 1 and 3,
\* a setAttr whose request is not within the pin's capabilities fails with the
\* capability error and leaves currentMode as it was.
C1_NonConsole ==
    [][\A value \in Requests :
         (index \notin ConsoleIndexes /\ ~validateWith(value, capabilities) /\ setAttr(value))
             => (/\ lastOp'.op = "setAttr"
                 /\ lastOp'.status = CapabilityMismatch
                 /\ currentMode' = currentMode)]_vars

\* a request outside the capabilities has just been turned down on a pin that
\* had a mode to keep
C1_Witness ==
    /\ phase = "live"
    /\ index \notin ConsoleIndexes
    /\ lastOp.op = "setAttr"
    /\ lastOp.status = CapabilityMismatch
    /\ currentMode # None

\* C2: on a pin other than the console pins, a setAttr whose request conflicts
\* with what the pin has accumulated so far is rejected with an attribute error
\* and leaves currentMode as it was.  What the pin has accumulated includes the
\* attributes of its construction options and the argument of its latest
\* successful setAttr (currentMode).
C2_ConflictRejected ==
    [][\A value \in Requests :
         (/\ index \notin ConsoleIndexes
          /\ conflictsWith(attributes \cup currentMode, value)
          /\ setAttr(value))
             => (Rejected /\ currentMode' = currentMode)]_vars

\* C3: a setAttr that is rejected issues no hardware call and leaves the pin's
\* attributes, currentMode, readWriteMask, the line and the interrupt binding
\* as they were.
C3_RejectedTouchesNothing ==
    [][Rejected
          => (/\ hwCalls' = <<>>
              /\ UNCHANGED <<index, capabilities, attributes, currentMode, readWriteMask>>
              /\ UNCHANGED <<line, isr>>)]_vars

\* a conflicting request has just been turned down on a pin that had a mode
C3_Witness ==
    /\ phase = "live"
    /\ lastOp.op = "setAttr"
    /\ lastOp.status = AttributeConflict
    /\ currentMode # None

\* C4: write fails with an attribute error and issues no digitalWrite unless
\* currentMode includes Output; with Output it issues exactly one digitalWrite,
\* on the pin's own index, of value XOR readWriteMask, and changes no field of
\* the pin.
C4_WriteGated ==
    [][\A high \in {0, 1} :
         write(high) =>
            IF "Output" \in currentMode
            THEN /\ lastOp'.status = Ok
                 /\ hwCalls' = <<[fn |-> "digitalWrite", pin |-> index,
                                  val |-> (high + readWriteMask) % 2]>>
                 /\ UNCHANGED <<index, capabilities, attributes, currentMode, readWriteMask>>
            ELSE /\ lastOp'.status \in AttributeErrors
                 /\ hwCalls' = <<>>
                 /\ line' = line
                 /\ UNCHANGED <<index, capabilities, attributes, currentMode, readWriteMask>>]_vars

\* logical 1 has just been written to an active-low output pin
C4_Witness ==
    /\ lastOp.op = "write"
    /\ lastOp.status = Ok
    /\ lastOp.high = 1
    /\ readWriteMask = HIGH
    /\ "Output" \in currentMode

\* C5: a read that directly follows a successful write(v) returns v, whatever
\* the polarity of the pin.
C5_ReadAfterWrite ==
    [][(lastOp.op = "write" /\ lastOp.status = Ok /\ read)
           => lastOp'.ret = lastOp.high]_vars

\* an active-low pin has been written and read back as logical 1
C5_Witness ==
    /\ lastOp.op = "read"
    /\ lastOp.afterWrite
    /\ lastOp.ret = 1
    /\ readWriteMask = HIGH

\* C6: before any successful setAttr whose request includes ISR, attachInterrupt
\* and detachInterrupt fail with an attribute error and do not reach the
\* interrupt controller; while the latest successful setAttr's request
\* (currentMode) includes ISR, attachInterrupt succeeds and binds the callback,
\* its context and the trigger mode to the pin's index.
C6_InterruptGated ==
    [][\A callback \in Callbacks, arg \in Contexts, mode \in TriggerModes :
         /\ ((attachInterrupt(callback, arg, mode) \/ detachInterrupt) /\ ~isrRequested)
                => (/\ lastOp'.status \in AttributeErrors
                    /\ hwCalls' = <<>>
                    /\ isr' = isr)
         /\ (attachInterrupt(callback, arg, mode) /\ isrRequested /\ "ISR" \in currentMode)
                => (/\ lastOp'.status = Ok
                    /\ isr' = [bound |-> TRUE, pin |-> index, cb |-> callback,
                               arg |-> arg, mode |-> mode]
                    /\ hwCalls' = <<[fn |-> "attachInterruptArg", pin |-> index, val |-> 0]>>)]_vars

\* a callback has just been bound after ISR was requested
C6_Witness ==
    /\ lastOp.op = "attachInterrupt"
    /\ lastOp.status = Ok
    /\ isrRequested
    /\ isr.bound
    /\ isr.pin = index

\* the indices that appear in a case label of the capability table
MappedPins == (0..19) \cup {21, 22, 23, 25, 26, 27, 29, 32, 33, 34, 35, 36, 39}

ValidTokens == {"pu", "pd", "low", "high"}

AllValid(opts) == \A i \in 1..Len(opts) : opts[i] \in ValidTokens

\* C7: for every 8-bit index outside the mapped set the capability set is None
\* and construction fails with "Bad GPIO number", creating no pin and issuing
\* no hardware call; for every index in the mapped set the capability set is
\* not None and construction with valid options succeeds.
C7_UnmappedRejected ==
    [][lastOp'.op = "construct" =>
         LET idx == lastOp'.args[1]
             opts == lastOp'.args[2]
         IN  IF idx \notin MappedPins
             THEN /\ GetDefaultCapabilities(idx) = None
                  /\ phase' = "failed"
                  /\ lastOp'.status = BadGpioNumber
                  /\ hwCalls' = <<>>
                  /\ UNCHANGED <<index, capabilities, attributes, currentMode, readWriteMask>>
                  /\ UNCHANGED <<line, isr>>
             ELSE /\ GetDefaultCapabilities(idx) # None
                  /\ AllValid(opts) =>
                        (/\ phase' = "live"
                         /\ lastOp'.status = Ok
                         /\ index' = idx
                         /\ capabilities' = GetDefaultCapabilities(idx))]_vars

\* construction at an unmapped index has just failed
C7_Witness ==
    /\ phase = "failed"
    /\ lastOp.op = "construct"
    /\ lastOp.args[1] = 40
    /\ lastOp.status = BadGpioNumber
    /\ hwCalls = <<>>

\* C8: if any option token is none of pu, pd, low, high, construction fails
\* with a configuration error wherever the token stands, no pin is constructed
\* and no hardware call is issued; if all tokens are valid, the accumulated
\* attributes are exactly PullUp for pu, PullDown for pd, ActiveLow for low,
\* and nothing for high.
C8_FoldAllOrNothing ==
    [][lastOp'.op = "construct" =>
         LET opts == lastOp'.args[2]
         IN  IF ~AllValid(opts)
             THEN /\ phase' = "failed"
                  /\ lastOp'.status \in ConfigurationErrors
                  /\ hwCalls' = <<>>
                  /\ UNCHANGED <<index, capabilities, attributes, currentMode, readWriteMask>>
                  /\ UNCHANGED <<line, isr>>
             ELSE phase' = "live" =>
                    attributes' =
                        {f \in {"PullUp", "PullDown", "ActiveLow"} :
                           \E i \in 1..Len(opts) :
                              \/ f = "PullUp" /\ opts[i] = "pu"
                              \/ f = "PullDown" /\ opts[i] = "pd"
                              \/ f = "ActiveLow" /\ opts[i] = "low"}]_vars

\* construction has just failed on an option token
C8_Witness ==
    /\ phase = "failed"
    /\ lastOp.op = "construct"
    /\ lastOp.args = <<26, <<"pu", "low", "other">>>>
    /\ lastOp.status = BadGpioOption
    /\ hwCalls = <<>>

\* C9: on every constructed pin the flags Input, Output, PullUp, PullDown and
\* ISR of attributes and of currentMode are among the pin's capabilities.
C9_WithinCapabilities ==
    phase = "live" =>
        /\ (attributes \cap MappedFlags) \subseteq capabilities
        /\ (currentMode \cap MappedFlags) \subseteq capabilities

\* C10 (as stated): after a successful setAttr, attributes() is the argument of
\* that call, which is currentMode.
C10_AttributesIsCurrentMode ==
    (phase = "live" /\ lastOp.op = "setAttr" /\ lastOp.status = Ok)
        => attributes = currentMode

\* C10 (amended): attributes() is the set accumulated from the construction
\* options; no setAttr, successful or rejected, changes it.
C10_AttributesFromOptions ==
    [][lastOp'.op = "setAttr" => attributes' = attributes]_vars

\* a successful setAttr has left attributes() different from its argument
C10_Witness ==
    /\ phase = "live"
    /\ lastOp.op = "setAttr"
    /\ lastOp.status = Ok
    /\ currentMode # None
    /\ attributes # currentMode

\* the digitalWrite calls among the hardware calls of the step
WritesIssued == SelectSeq(hwCalls', LAMBDA c : c.fn = "digitalWrite")

\* C11: a successful setAttr whose request includes Output issues, before it
\* returns, one digitalWrite on the pin of level 1 XOR readWriteMask if the
\* request has InitialOn and 0 XOR readWriteMask if not, and the line is at
\* that level; a successful setAttr whose request has no Output issues no
\* digitalWrite.
C11_InitialLevel ==
    [][\A value \in Requests :
         (lastOp'.status = Ok /\ setAttr(value)) =>
            IF "Output" \in value
            THEN LET level == IF "InitialOn" \in value
                              THEN (1 + readWriteMask) % 2
                              ELSE (0 + readWriteMask) % 2
                 IN  /\ WritesIssued = <<[fn |-> "digitalWrite", pin |-> index, val |-> level]>>
                     /\ line' = level
            ELSE /\ WritesIssued = <<>>
                 /\ line' = line]_vars

\* an active-low pin has just been made an output that starts on
C11_Witness ==
    /\ lastOp.op = "setAttr"
    /\ lastOp.status = Ok
    /\ {"Output", "InitialOn"} \subseteq currentMode
    /\ readWriteMask = HIGH
    /\ line = LOW

\* pin 26 constructed with ["low"] has just accepted setAttr(Output)
LowPin26Output ==
    /\ phase = "live"
    /\ index = 26
    /\ attributes = {"ActiveLow"}
    /\ lastOp.op = "setAttr"
    /\ lastOp.status = Ok
    /\ currentMode = {"Output"}

\* C12 (as stated): on pin 26 constructed with ["low"], after setAttr(Output)
\* without InitialOn the level the hardware received is LOW.
C12_ReceivesLow ==
    LowPin26Output =>
        (hwCalls[1] = [fn |-> "digitalWrite", pin |-> 26, val |-> LOW] /\ line = LOW)

\* C12 (amended): on pin 26 constructed with ["low"], after setAttr(Output)
\* without InitialOn the level the hardware received is HIGH, the inactive
\* level of an active-low pin.
C12_ReceivesHigh ==
    LowPin26Output =>
        (hwCalls[1] = [fn |-> "digitalWrite", pin |-> 26, val |-> HIGH] /\ line = HIGH)

\* the scenario of C12 has happened
C12_Witness == LowPin26Output /\ Len(hwCalls) = 2

\* C13: once a pin is constructed no operation, accepted or rejected, changes
\* its capabilities, its readWriteMask, its index or its attributes;
\* readWriteMask is HIGH exactly when "low" was among the construction options;
\* and currentMode changes only in a successful setAttr.
C13_FixedAfterConstruction ==
    [][/\ phase = "live" =>
             /\ UNCHANGED <<capabilities, readWriteMask, index, attributes>>
             /\ currentMode' # currentMode
                    => (lastOp'.op = "setAttr" /\ lastOp'.status = Ok)
       /\ (lastOp'.op = "construct" /\ phase' = "live") =>
             LET opts == lastOp'.args[2]
             IN  readWriteMask' = HIGH <=> \E i \in 1..Len(opts) : opts[i] = "low"
       /\ phase' = "live" => (readWriteMask' = HIGH <=> "ActiveLow" \in attributes')]_vars

\* an active-low pin has been configured and has just released its interrupt
C13_Witness ==
    /\ phase = "live"
    /\ readWriteMask = HIGH
    /\ lastOp.op = "detachInterrupt"
    /\ lastOp.status = Ok
    /\ currentMode # None

\* the orderings of n positions
Orderings(n) == {p \in [1..n -> 1..n] : \A i, j \in 1..n : p[i] = p[j] => i = j}

Reordered(opts, p) == [i \in 1..Len(opts) |-> opts[p[i]]]

\* C14: construction with any reordering of the option list is accepted
\* exactly when construction with the list itself is, and then gives the same
\* attributes and the same readWriteMask.
C14_OrderIrrelevant ==
    [][lastOp'.op = "construct" =>
         LET idx == lastOp'.args[1]
             opts == lastOp'.args[2]
         IN  IF GetDefaultCapabilities(idx) = None
             THEN phase' # "live"
             ELSE \A p \in Orderings(Len(opts)) :
                     LET fold == FoldOptions(Reordered(opts, p))
                     IN  /\ fold.ok <=> phase' = "live"
                         /\ fold.ok => (/\ attributes' = fold.attrs
                                        /\ readWriteMask' = MaskOf(fold.attrs))]_vars

\* a pin has been constructed with pull-down given before pull-up
C14_Witness ==
    /\ phase = "live"
    /\ lastOp.op = "construct"
    /\ lastOp.args = <<26, <<"pd", "pu", "low">>>>
    /\ attributes = {"PullUp", "PullDown", "ActiveLow"}

\* C15: a successful setAttr(requested) leaves currentMode = requested, with
\* nothing of the previous mode; write succeeds exactly when that latest
\* request has Output and attachInterrupt exactly when it has ISR, whatever
\* was requested before.
C15_FullReplace ==
    [][/\ \A value \in LifeRequests :
             (lastOp'.status = Ok /\ setAttr(value)) => currentMode' = value
       /\ lastOp'.op = "write" => (lastOp'.status = Ok <=> "Output" \in currentMode)
       /\ lastOp'.op = "attachInterrupt" => (lastOp'.status = Ok <=> "ISR" \in currentMode)]_vars

\* ISR was requested once, the latest request has none, and attachInterrupt
\* has just failed
C15_Witness ==
    /\ isrRequested
    /\ "ISR" \notin currentMode
    /\ currentMode # None
    /\ lastOp.op = "attachInterrupt"
    /\ lastOp.status = NoIsrBind

\* the bits of a pin mode value
HasBit(val, bit) == (val \div bit) % 2 = 1

\* C16: the mode a successful setAttr(requested) passes to pinMode is: input
\* if requested has Input, otherwise output if it has Output, otherwise no
\* direction; pull-up if PullUp is in attributes or requested, otherwise
\* pull-down if PullDown is in that union, otherwise no pull.  So the mode never
\* has both pulls nor both directions.
C16_PinMode ==
    [][(lastOp'.op = "setAttr" /\ lastOp'.status = Ok) =>
         LET requested == currentMode'
             union == attributes \cup requested
             mode == hwCalls'[Len(hwCalls')]
         IN  /\ mode.fn = "pinMode"
             /\ HasBit(mode.val, INPUT) <=> "Input" \in requested
             /\ HasBit(mode.val, OUTPUT) <=> ("Input" \notin requested /\ "Output" \in requested)
             /\ HasBit(mode.val, PULLUP) <=> "PullUp" \in union
             /\ HasBit(mode.val, PULLDOWN) <=> ("PullUp" \notin union /\ "PullDown" \in union)
             /\ mode.val < 16
             /\ ~(HasBit(mode.val, PULLUP) /\ HasBit(mode.val, PULLDOWN))
             /\ ~(HasBit(mode.val, INPUT) /\ HasBit(mode.val, OUTPUT))]_vars

\* a pin constructed with both pulls has been made an input with pull-up
C16_Witness ==
    /\ {"PullUp", "PullDown"} \subseteq attributes
    /\ lastOp.op = "setAttr"
    /\ lastOp.status = Ok
    /\ "Input" \in currentMode
    /\ hwCalls = <<[fn |-> "pinMode", pin |-> index, val |-> INPUT + PULLUP]>>

\* C17: on pins 1 and 3 every setAttr request is accepted and becomes
\* currentMode, also when it is outside the capabilities or conflicts with the
\* attributes; on every other pin a request is accepted exactly when it is
\* within the capabilities and does not conflict with the attributes.
C17_ConsoleExemption ==
    [][\A value \in Requests :
         setAttr(value) =>
            IF index \in {1, 3}
            THEN lastOp'.status = Ok /\ currentMode' = value
            ELSE lastOp'.status = Ok
                    <=> (validateWith(value, capabilities) /\ ~conflictsWith(attributes, value))]_vars

\* pin 3, constructed with pull-up, has accepted a pull-down request that is
\* outside its capabilities and conflicts with its attributes
C17_Witness ==
    /\ index = 3
    /\ "PullUp" \in attributes
    /\ lastOp.op = "setAttr"
    /\ lastOp.status = Ok
    /\ "PullDown" \in currentMode
    /\ "PullDown" \notin capabilities

\* C18: a successful setAttr issues exactly one pinMode call, on the pin's
\* index, as its last hardware call; when Output is requested one digitalWrite
\* on the pin's index comes before it; there is no other hardware call.
C18_CallOrder ==
    [][(lastOp'.op = "setAttr" /\ lastOp'.status = Ok) =>
         LET fns == [i \in 1..Len(hwCalls') |-> hwCalls'[i].fn]
         IN  /\ \A i \in 1..Len(hwCalls') : hwCalls'[i].pin = index
             /\ fns = IF "Output" \in currentMode'
                      THEN <<"digitalWrite", "pinMode">>
                      ELSE <<"pinMode">>]_vars

\* an output request has just been applied: the level, then the mode
C18_Witness ==
    /\ lastOp.op = "setAttr"
    /\ lastOp.status = Ok
    /\ "Output" \in currentMode
    /\ Len(hwCalls) = 2
    /\ hwCalls[1].fn = "digitalWrite"
    /\ hwCalls[2] = [fn |-> "pinMode", pin |-> index, val |-> OUTPUT]

\* C19: whenever a callback is bound to the pin in the interrupt controller,
\* currentMode includes ISR, so that detachInterrupt would succeed.
C19_BoundCanUnbind ==
    isr.bound => "ISR" \in currentMode

\* C20: on a pin other than 1 and 3 whose capabilities lack Output, no
\* operation issues a digitalWrite or a pinMode that selects output, Output is
\* never in currentMode, and every write fails.
C20_InputOnlyNeverDriven ==
    (phase = "live" /\ index \notin {1, 3} /\ "Output" \notin capabilities) =>
        /\ \A i \in 1..Len(hwCalls) :
              /\ hwCalls[i].fn # "digitalWrite"
              /\ hwCalls[i].fn = "pinMode" => ~HasBit(hwCalls[i].val, OUTPUT)
        /\ "Output" \notin currentMode
        /\ lastOp.op = "write" => lastOp.status = NoOutput

\* a write on input-only pin 34 has just failed
C20_Witness ==
    /\ index = 34
    /\ currentMode # None
    /\ lastOp.op = "write"
    /\ lastOp.status = NoOutput

====
